---- MODULE Spec2Model ----
(***************************************************************************)
(* autobisectjs (src/funfuzz/autobisectjs/autobisectjs.py): the bisection  *)
(* controller findBlamedCset, its response parser bisectLabel, the blame   *)
(* verifier checkBlameParents, the locked session started by main, and the *)
(* two oracles internalTestAndLabel and externalTestAndLabel.               *)
(*                                                                         *)
(* Each process runs main once.  The hg repository (its bisect state and   *)
(* its working copy) and the lock directory are shared by the processes;   *)
(* the locals of findBlamedCset are per process.  The delegate (hg bisect),*)
(* the oracle (testRev) and the other hg queries are external: their       *)
(* answers are inputs, drawn from small sets.  Log output is not modelled  *)
(* (iterNum, which only feeds the log, is left out).                       *)
(***************************************************************************)
EXTENDS Integers, Sequences, FiniteSets, TLC

\* ------------------------------------------------------------- bounds
\* Good/bad verdicts the oracle may give in the loop of one session before it
\* only answers skip (the loop itself has no bound on them).
MaxNonSkip == 2
\* Skip verdicts of a session after which an answer "The first ... revision
\* is: <id>" is still followed (checkBlameParents never reads the skip count).
MaxFoundSkips == 2

\* ---------------------------------------------------------- constants
\* `if skipCount > 20` (findBlamedCset).
SkipLimit == 20

Procs == {"p1", "p2"}
Revs == {"r1", "r2"}
\* The revisions `hg parent` may name: those the bisection deals with, and r0,
\* a revision outside the range.
ParentRevs == Revs \cup {"r0"}
\* The revisions of the repository: rA is an older revision that only hg's
\* common-ancestor query ever names.
AllRevs == ParentRevs \cup {"rA"}
\* The revisions options.startRepo / options.endRepo may resolve to.
StartRevs == {"r2"}
EndRevs == {"r1", "r2"}
NoRev == "None"
RevOrNone == Revs \cup {NoRev}
Verdicts == {"good", "bad", "skip"}
NoLabel == "None"

\* The first line of hg's answer to a mark, by the pattern it matches.
Line0Kinds == {"DueToSkipped", "FirstGood", "FirstBad", "Other"}
\* An answer of the delegate: the kind of its first line, the revision id
\* embedded in its first line (or none) and in its second line (or none).
\* Only the first line of a "Testing changeset ..." answer and the second
\* line of a "The first ... revision is:" answer are ever read for an id.
Responses ==
    [line0 : {"DueToSkipped"}, id0 : {NoRev}, id1 : {NoRev}]
        \cup [line0 : {"FirstGood", "FirstBad"}, id0 : {NoRev}, id1 : RevOrNone]
        \cup [line0 : {"Other"}, id0 : RevOrNone, id1 : {NoRev}]
\* No answer read yet, or the answer was dropped for the next test.
NoAnswer == [line0 |-> "None", id0 |-> NoRev, id1 |-> NoRev, by |-> "none"]

\* The parent lists `hg parent` may print: one parent, or the two distinct
\* parents of a merge.
ParentLists ==
    {<<r>> : r \in ParentRevs}
        \cup {pr \in ParentRevs \X ParentRevs : pr[1] # pr[2]}
\* The revisions in a parent list.
ParentSet(parents) == {parents[i] : i \in 1..Len(parents)}

VARIABLES
    lockHolder,   \* the process holding the lock directory, or "free"
    bisectState,  \* hg's bisect state: "reset" or "dirty" (marks or skips set)
    workingCopy,  \* what is checked out: "default", or "other" once a test
                  \* has updated the checkout to the revision it builds
    pc,           \* each process's position
    options,      \* each process's options (testInitialRevs is assigned to)
    sess,         \* each process's locals of findBlamedCset/checkBlameParents
    hist,         \* each process's observed history of the session
    oracle,       \* one call of the internal oracle: its inputs and its result
    ext           \* the external oracle: its temporary directories and calls

vars == <<lockHolder, bisectState, workingCopy, pc, options, sess, hist,
          oracle, ext>>
oracleVars == <<oracle, ext>>
sessionVars == <<lockHolder, bisectState, workingCopy, pc, options, sess, hist>>

NoOptions == [testInitialRevs |-> TRUE]

\* The exit codes of the tested shell (negative: killed by a signal).
ExitCodes == {-31, -11, -1, 0, 1, 2, 3, 6, 7, 128, 129, 139, 159, 160}
\* The values of -w (options.watchExitCode, when it is not None).
WatchExitCodes == {0, 1, 3, 7, 129, 139, 159}
\* options as internalTestAndLabel reads them: whether options.output is "",
\* whether options.watchExitCode is None, and its value when it is not.
OracleOptions ==
    [outputEmpty : BOOLEAN, watchIsNone : {FALSE}, watchExitCode : WatchExitCodes]
        \cup [outputEmpty : BOOLEAN, watchIsNone : {TRUE}, watchExitCode : {0}]
\* stdoutStderr, by the substrings it contains: options.output (when that is
\* not ""), and one of the four messages of a js shell that rejects a CLI
\* parameter.
OutputTexts == [hasOutput : BOOLEAN, hasUsage : BOOLEAN]
OracleInputs ==
    [options : OracleOptions, stdoutStderr : OutputTexts, exitCode : ExitCodes,
     label : {"None"}, reason : {"None"}]
\* The call of the internal oracle when a session is modelled instead.
NoOracle ==
    [options |-> [outputEmpty |-> TRUE, watchIsNone |-> TRUE, watchExitCode |-> 0],
     stdoutStderr |-> [hasOutput |-> FALSE, hasUsage |-> FALSE],
     exitCode |-> 0, label |-> "None", reason |-> "None"]

\* The external oracle before its first call.
NoExt ==
    [hasInit |-> FALSE,   \* the condition script has an init
     tempDirs |-> {},     \* the abExtTestAndLabel-* directories that exist
     nCalls |-> 0,        \* calls of inner so far (the n-th creates directory n)
     result |-> "None"]   \* how the latest call ended

NoSess ==
    [realStartRepo |-> NoRev, realEndRepo |-> NoRev,
     sRepo |-> NoRev, eRepo |-> NoRev, currRev |-> NoRev,
     labels |-> [r \in AllRevs |-> NoLabel], label |-> NoLabel,
     skipCount |-> 0, blamedRev |-> NoRev, blamedGoodOrBad |-> NoLabel,
     parents |-> <<>>, pIdx |-> 0,
     bisectLied |-> FALSE, missedCommonAncestor |-> FALSE]

NoHist ==
    [outcome |-> "none",      \* how the session ended
     trusted |-> FALSE,       \* the session started with testInitialRevs unset
     nonSkip |-> 0,           \* good/bad verdicts given in the loop
     nTests |-> 0,            \* oracle calls (loop and verifier)
     nMarks |-> 0,            \* marks sent to the delegate
     nSkipMarks |-> 0,        \* skip marks sent by the loop
     tested |-> {},           \* revisions the oracle returned a verdict for
     initRelabelled |-> FALSE, \* the initialisation replaced a label it had set
     answer |-> NoAnswer,     \* the answer to the latest mark, until the next test
     initOps |-> <<>>,        \* the hg bisect commands of the initialisation, in order
     nVerifier |-> 0,         \* calls of checkBlameParents
     verifierArgs |-> <<>>,   \* (verdict, revision) checkBlameParents was called with
     ancestryOf |-> <<>>,     \* (startRepo, endRepo) it was called with
     entryUnlabelled |-> {},  \* the parents that had no label when it was called
     outsideParent |-> FALSE, \* hg answered that such a parent descends from neither
     vTested |-> {},          \* revisions checkBlameParents got a verdict for
     report |-> "none",       \* the explanation checkBlameParents logged
     pending |-> <<>>,        \* (revision, verdict) of a loop test not yet marked
     inOrder |-> TRUE,        \* every loop mark carried the pending test
     cleaned |-> FALSE]       \* the terminal cleanup ran

Init ==
    /\ lockHolder = "free"
    /\ bisectState = "reset"
    /\ workingCopy = "default"
    /\ pc = [p \in Procs |-> "start"]
    /\ options = [p \in Procs |-> NoOptions]
    /\ sess = [p \in Procs |-> NoSess]
    /\ hist = [p \in Procs |-> NoHist]
    /\ oracle = NoOracle
    /\ ext = NoExt

\* ------------------------------------------------------- pure helpers

\* labels[rev] = label
SetLabel(labels, rev, verdict) == [labels EXCEPT ![rev] = verdict]

\* The assignment labels[rev] = verdict replaces an entry by a different one.
Replaces(labels, rev, verdict) ==
    labels[rev] # NoLabel /\ labels[rev] # verdict

\* hg_helpers.get_cset_hash_from_bisect_msg on one line: the revision id
\* embedded in the line, or None.
GetCsetHashFromBisectMsg(lineId) == lineId

\* The earliest revision tested first.
InitialRevIsStart(sRepo, eRepo) == sRepo

\* `currRev = eRepo`: with testInitialRevs set the latest revision is tested first.
InitialRev(sRepo, eRepo) == eRepo

\* The break one skip late.
SkipOverflowOffByOne(skipCount) == skipCount > SkipLimit + 1

\* `if skipCount > 20: ... break`
SkipOverflow(skipCount) == skipCount > SkipLimit

\* A first line with no revision id taken for a candidate.
ParseNeverFails(currRev) == FALSE

\* `if currRev is None:` after the first line was parsed.
ParseFails(currRev) == currRev = NoRev

\* The start moved for every verdict.
NewStartAnyLabel(hgLabel, currRev, startRepo) == currRev

\* `start = startRepo ... elif hgLabel == "good": start = currRev`
NewStart(hgLabel, currRev, startRepo) ==
    IF hgLabel = "good" THEN currRev ELSE startRepo

\* `end = endRepo; if hgLabel == "bad": end = currRev`
NewEnd(hgLabel, currRev, endRepo) ==
    IF hgLabel = "bad" THEN currRev ELSE endRepo

\* The endpoint phase parsing the answer like any other.
ReturnsBeforeParseNever(testInitialRevs) == FALSE

\* `if options.testInitialRevs: return None, None, None, startRepo, endRepo`
ReturnsBeforeParse(testInitialRevs) == testInitialRevs

BisectLabelResult(raised, blamedGoodOrBad, blamedRev, currRev, startRepo, endRepo) ==
    [raised |-> raised, blamedGoodOrBad |-> blamedGoodOrBad,
     blamedRev |-> blamedRev, currRev |-> currRev,
     sRepo |-> startRepo, eRepo |-> endRepo]

\* bisectLabel without its test for "Due to skipped revisions ...".
BisectLabelNoAmbiguous(testInitialRevs, hgLabel, resp, startRepo, endRepo) ==
    IF resp.line0 \in {"FirstGood", "FirstBad"}
    THEN BisectLabelResult(FALSE,
                           IF resp.line0 = "FirstGood" THEN "good" ELSE "bad",
                           GetCsetHashFromBisectMsg(resp.id1), NoRev,
                           startRepo, endRepo)
    ELSE IF testInitialRevs
    THEN BisectLabelResult(FALSE, NoLabel, NoRev, NoRev, startRepo, endRepo)
    ELSE LET currRev == GetCsetHashFromBisectMsg(resp.id0) IN
         IF currRev = NoRev
         THEN BisectLabelResult(TRUE, NoLabel, NoRev, NoRev, startRepo, endRepo)
         ELSE BisectLabelResult(FALSE, NoLabel, NoRev, currRev,
                                IF hgLabel = "good" THEN currRev ELSE startRepo,
                                IF hgLabel = "bad" THEN currRev ELSE endRepo)

\* bisectLabel, after the mark was sent and answered by resp: what it returns,
\* or that it raises "hg did not suggest a changeset to test!".
BisectLabel(testInitialRevs, hgLabel, resp, startRepo, endRepo) ==
    IF resp.line0 = "DueToSkipped"
    THEN BisectLabelResult(FALSE, NoLabel, NoRev, NoRev, startRepo, endRepo)
    ELSE IF resp.line0 \in {"FirstGood", "FirstBad"}
    THEN BisectLabelResult(FALSE,
                           IF resp.line0 = "FirstGood" THEN "good" ELSE "bad",
                           GetCsetHashFromBisectMsg(resp.id1), NoRev,
                           startRepo, endRepo)
    ELSE IF ReturnsBeforeParse(testInitialRevs)
    THEN BisectLabelResult(FALSE, NoLabel, NoRev, NoRev, startRepo, endRepo)
    ELSE LET currRev == GetCsetHashFromBisectMsg(resp.id0) IN
         IF ParseFails(currRev)
         THEN BisectLabelResult(TRUE, NoLabel, NoRev, NoRev, startRepo, endRepo)
         ELSE BisectLabelResult(FALSE, NoLabel, NoRev, currRev,
                                NewStart(hgLabel, currRev, startRepo),
                                NewEnd(hgLabel, currRev, endRepo))

\* What an answer is, for the history.
IsNext(resp) == resp.line0 = "Other" /\ resp.id0 # NoRev
IsFound(resp) == resp.line0 \in {"FirstGood", "FirstBad"} /\ resp.id1 # NoRev
FoundOf(resp) ==
    <<IF resp.line0 = "FirstGood" THEN "good" ELSE "bad", resp.id1>>
IsAmbiguous(resp) == resp.line0 = "DueToSkipped"

\* The start of the range marked instead of the tested revision.
MarkArgsStart(s) == <<s.sRepo, s.label>>

\* `bisectLabel(hgPrefix, options, label[0], currRev, sRepo, eRepo)`: the
\* revision and the verdict of the mark `hg bisect --<hgLabel> <currRev>`.
MarkArgs(s) == <<s.currRev, s.label>>

\* The history after the oracle was called on rev and returned.
Tested(h, rev) ==
    [h EXCEPT !.nTests = @ + 1,
              !.tested = @ \cup {rev},
              !.answer = NoAnswer]

\* The history after a mark was answered by resp; by: who sent the mark, the
\* initialisation ("init"), bisectLabel for the end-endpoint test of a session
\* with testInitialRevs set ("endpoint"), or bisectLabel later ("loop").
Marked(h, resp, by) ==
    [h EXCEPT !.nMarks = @ + 1,
              !.answer = [line0 |-> resp.line0, id0 |-> resp.id0,
                          id1 |-> resp.id1, by |-> by]]

\* ------------------------------------------------------------- main

\* LockDir.__enter__ (util/lock_dir): the lock directory is taken.
LockDirEnter(p) == lockHolder = "free" /\ lockHolder' = p

\* LockDir.__exit__: the lock directory is given back.
LockDirExit(p) == lockHolder' = IF lockHolder = p THEN "free" ELSE lockHolder

\* main without its `with LockDir(...)`.
MainEnterNoLock(p) ==
    /\ pc[p] = "start"
    /\ \E tir \in BOOLEAN :
         options' = [options EXCEPT ![p] = [testInitialRevs |-> tir]]
    /\ pc' = [pc EXCEPT ![p] = "locked"]
    /\ UNCHANGED <<lockHolder, bisectState, workingCopy, sess, hist>>
    /\ UNCHANGED oracleVars

\* main: parseOpts, then the with-block is entered.
MainEnter(p) ==
    /\ pc[p] = "start"
    /\ \E tir \in BOOLEAN :
         options' = [options EXCEPT ![p] = [testInitialRevs |-> tir]]
    /\ LockDirEnter(p)
    /\ pc' = [pc EXCEPT ![p] = "locked"]
    /\ UNCHANGED <<bisectState, workingCopy, sess, hist>>
    /\ UNCHANGED oracleVars

\* main: findBlamedCset returned; rm_old_local_cached_dirs, then the
\* with-block is left and the process ends.
MainExit(p) ==
    /\ pc[p] = "done"
    /\ LockDirExit(p)
    /\ pc' = [pc EXCEPT ![p] = "exited"]
    /\ options' = [options EXCEPT ![p] = NoOptions]
    /\ sess' = [sess EXCEPT ![p] = NoSess]
    /\ hist' = [hist EXCEPT ![p] = NoHist]
    /\ UNCHANGED <<bisectState, workingCopy>>
    /\ UNCHANGED oracleVars

\* main: an exception leaves findBlamedCset; the with-block is left by it.
MainExitError(p) ==
    /\ pc[p] = "raised"
    /\ LockDirExit(p)
    /\ pc' = [pc EXCEPT ![p] = "exited"]
    /\ options' = [options EXCEPT ![p] = NoOptions]
    /\ sess' = [sess EXCEPT ![p] = NoSess]
    /\ hist' = [hist EXCEPT ![p] = NoHist]
    /\ UNCHANGED <<bisectState, workingCopy>>
    /\ UNCHANGED oracleVars

\* --------------------------------------------------- findBlamedCset

\* The known-broken ranges skipped before the bisect state is reset.
InitDelegateOpsSkipFirst(skipRevs) ==
    (IF skipRevs THEN << <<"skip">> >> ELSE <<>>) \o << <<"reset">> >>

\* `hg bisect -r`, then `if options.skipRevs: hg bisect --skip <skipRevs>`.
InitDelegateOps(skipRevs) ==
    << <<"reset">> >> \o (IF skipRevs THEN << <<"skip">> >> ELSE <<>>)

\* The end marked bad before the start is marked good.
AssumedMarksBadFirst(sRepo, eRepo) == << <<"bad", eRepo>>, <<"good", sRepo>> >>

\* `hg bisect -U -g sRepo`, then `hg bisect -U -b eRepo`.
AssumedMarks(sRepo, eRepo) == << <<"good", sRepo>>, <<"bad", eRepo>> >>

\* findBlamedCset up to the loop, testInitialRevs set: the endpoints are
\* resolved, hg bisect is reset, the known-broken ranges are skipped.
FindInitTest(p) ==
    /\ pc[p] = "locked"
    /\ options[p].testInitialRevs
    /\ \E s \in StartRevs, e \in EndRevs :
         sess' = [sess EXCEPT ![p] =
                    [NoSess EXCEPT !.realStartRepo = s, !.realEndRepo = e,
                                   !.sRepo = s, !.eRepo = e,
                                   !.currRev = InitialRev(s, e)]]
    /\ \E skipRevs \in BOOLEAN :
         /\ bisectState' = IF skipRevs THEN "dirty" ELSE "reset"
         /\ hist' = [hist EXCEPT ![p] =
                       [NoHist EXCEPT !.trusted = FALSE,
                                      !.initOps = InitDelegateOps(skipRevs)]]
    /\ pc' = [pc EXCEPT ![p] = "loop"]
    /\ UNCHANGED <<lockHolder, workingCopy, options>>
    /\ UNCHANGED oracleVars

\* findBlamedCset up to the loop, testInitialRevs unset: the endpoints are
\* assumed good and bad and marked so; the first candidate is read from the
\* answer to the second mark.  The helper is handed the list of the answer's
\* lines, not a line: it answers for the first line, or it raises.
FindInitTrusted(p) ==
    /\ pc[p] = "locked"
    /\ ~options[p].testInitialRevs
    /\ \E s \in StartRevs, e \in EndRevs, resp \in Responses, raises \in BOOLEAN,
          skipRevs \in BOOLEAN :
         LET assumed == SetLabel(NoSess.labels, s, "good")
             labels == SetLabel(assumed, e, "bad")
             currRev == GetCsetHashFromBisectMsg(resp.id0)
             h0 == [NoHist EXCEPT !.trusted = TRUE, !.nMarks = 1,
                                  !.initOps = InitDelegateOps(skipRevs)
                                                  \o AssumedMarks(s, e),
                                  !.initRelabelled = Replaces(assumed, e, "bad")]
             h1 == Marked(h0, resp, "init")
         IN
         /\ sess' = [sess EXCEPT ![p] =
                       [NoSess EXCEPT !.realStartRepo = s, !.realEndRepo = e,
                                      !.sRepo = s, !.eRepo = e,
                                      !.labels = labels,
                                      !.currRev = IF raises THEN NoRev ELSE currRev]]
         /\ hist' = [hist EXCEPT ![p] =
                       IF raises THEN [h1 EXCEPT !.outcome = "helper_error"]
                       ELSE IF currRev = NoRev
                       THEN [h1 EXCEPT !.outcome = "no_candidate"]
                       ELSE h1]
         /\ pc' = [pc EXCEPT ![p] =
                     IF raises THEN "raised"
                     ELSE IF currRev = NoRev THEN "afterLoop" ELSE "loop"]
    /\ bisectState' = "dirty"
    /\ UNCHANGED <<lockHolder, workingCopy, options>>
    /\ UNCHANGED oracleVars

\* One pass of the loop up to the break: testRev(currRev) returns verdict.
LoopTest(p) ==
    /\ pc[p] = "loop"
    /\ \E verdict \in Verdicts :
         LET s == sess[p]
             skipCount == IF verdict = "skip" THEN s.skipCount + 1 ELSE s.skipCount
             stop == verdict = "skip" /\ SkipOverflow(skipCount)
             h == Tested(hist[p], s.currRev)
         IN
         /\ verdict # "skip" => hist[p].nonSkip < MaxNonSkip
         /\ sess' = [sess EXCEPT ![p] =
                       [s EXCEPT !.label = verdict,
                                 !.labels = SetLabel(s.labels, s.currRev, verdict),
                                 !.skipCount = skipCount]]
         /\ hist' = [hist EXCEPT ![p] =
                       [h EXCEPT !.nonSkip = IF verdict = "skip" THEN @ ELSE @ + 1,
                                 !.pending = <<s.currRev, verdict>>,
                                 !.outcome = IF stop THEN "skip_overflow" ELSE @]]
         /\ pc' = [pc EXCEPT ![p] = IF stop THEN "afterLoop" ELSE "mark"]
         /\ workingCopy' = "other"
    /\ UNCHANGED <<lockHolder, bisectState, options>>
    /\ UNCHANGED oracleVars

\* testRev(currRev) raises in the loop: nothing catches it.
LoopTestRaise(p) ==
    /\ pc[p] = "loop"
    /\ hist' = [hist EXCEPT ![p] =
                  [@ EXCEPT !.nTests = @ + 1, !.outcome = "oracle_error",
                            !.answer = NoAnswer]]
    /\ workingCopy' = "other"
    /\ pc' = [pc EXCEPT ![p] = "raised"]
    /\ UNCHANGED <<lockHolder, bisectState, options, sess>>
    /\ UNCHANGED oracleVars

\* The rest of the pass: bisectLabel marks currRev and reads the answer, the
\* endpoint step sets the start revision as the next one to test.
LoopMark(p) ==
    /\ pc[p] = "mark"
    /\ \E resp \in Responses :
         LET s == sess[p]
             tir == options[p].testInitialRevs
             r == BisectLabel(tir, s.label, resp, s.sRepo, s.eRepo)
             h0 == Marked(hist[p], resp, IF tir THEN "endpoint" ELSE "loop")
             h == [h0 EXCEPT !.nSkipMarks = IF s.label = "skip" THEN @ + 1 ELSE @,
                             !.inOrder = @ /\ MarkArgs(s) = hist[p].pending,
                             !.pending = <<>>]
             assertFails == tir /\ r.currRev # NoRev
             currRev == IF tir THEN r.sRepo ELSE r.currRev
         IN
         /\ IsFound(resp) => s.skipCount <= MaxFoundSkips
         /\ IF r.raised \/ assertFails
            THEN /\ hist' = [hist EXCEPT ![p] =
                               [h EXCEPT !.outcome = IF r.raised THEN "parse_failure"
                                                     ELSE "assert_failure"]]
                 /\ workingCopy' = IF r.raised THEN "default" ELSE workingCopy
                 /\ pc' = [pc EXCEPT ![p] = "raised"]
                 /\ UNCHANGED <<options, sess>>
            ELSE /\ sess' = [sess EXCEPT ![p] =
                               [s EXCEPT !.blamedGoodOrBad = r.blamedGoodOrBad,
                                         !.blamedRev = r.blamedRev,
                                         !.currRev = currRev,
                                         !.sRepo = r.sRepo, !.eRepo = r.eRepo]]
                 /\ options' = [options EXCEPT ![p].testInitialRevs = FALSE]
                 /\ hist' = [hist EXCEPT ![p] =
                               IF currRev # NoRev THEN h
                               ELSE [h EXCEPT !.outcome =
                                        IF r.blamedRev # NoRev THEN "blamed"
                                        ELSE IF IsAmbiguous(resp) THEN "ambiguous"
                                        ELSE "no_blame"]]
                 /\ pc' = [pc EXCEPT ![p] =
                             IF currRev = NoRev THEN "afterLoop" ELSE "loop"]
                 /\ UNCHANGED workingCopy
    /\ bisectState' = "dirty"
    /\ UNCHANGED lockHolder
    /\ UNCHANGED oracleVars

\* checkBlameParents called after every loop.
HasBlamedRevAlways(s) == TRUE

\* `if blamedRev is not None:`
HasBlamedRev(s) == s.blamedRev # NoRev

\* A single parent looked at like the parents of a merge.
SingleParentNever(parents) == FALSE

\* `if len(parents) == 1: return`
SingleParent(parents) == Len(parents) = 1

\* `if blamedRev is not None: checkBlameParents(...)`, up to its loop: the
\* parents of the blamed revision are asked from hg.
CallCheckBlameParents(p) ==
    /\ pc[p] = "afterLoop"
    /\ HasBlamedRev(sess[p])
    /\ \E parents \in ParentLists :
         /\ sess[p].blamedRev \notin ParentSet(parents)
         /\ sess' = [sess EXCEPT ![p] =
                       [@ EXCEPT !.parents = parents, !.pIdx = 1,
                                 !.bisectLied = FALSE,
                                 !.missedCommonAncestor = FALSE]]
         /\ pc' = [pc EXCEPT ![p] =
                     IF SingleParent(parents) THEN "cleanup" ELSE "parents"]
    /\ hist' = [hist EXCEPT ![p] =
                  [@ EXCEPT !.nVerifier = @ + 1,
                            !.verifierArgs =
                                <<sess[p].blamedGoodOrBad, sess[p].blamedRev>>,
                            !.ancestryOf =
                                <<sess[p].realStartRepo, sess[p].realEndRepo>>,
                            !.entryUnlabelled =
                                {r \in ParentSet(sess'[p].parents) :
                                     sess[p].labels[r] = NoLabel},
                            !.answer = NoAnswer]]
    /\ UNCHANGED <<lockHolder, bisectState, workingCopy, options>>
    /\ UNCHANGED oracleVars

\* The loop ended with no blamed revision: checkBlameParents is not called.
NoBlamedRev(p) ==
    /\ pc[p] = "afterLoop"
    /\ ~HasBlamedRev(sess[p])
    /\ pc' = [pc EXCEPT ![p] = "cleanup"]
    /\ UNCHANGED <<lockHolder, bisectState, workingCopy, options, sess, hist>>
    /\ UNCHANGED oracleVars

\* ------------------------------------------------ checkBlameParents

\* A skipped parent counted as a parent with the blamed verdict.
ParentCheckedSkipLies(s, verdict) ==
    [s EXCEPT !.bisectLied = @ \/ verdict \in {"skip", s.blamedGoodOrBad},
              !.pIdx = @ + 1]

\* The flags after parent par, whose label is now verdict, was looked at.
ParentChecked(s, verdict) ==
    [s EXCEPT !.bisectLied = @ \/ (verdict # "skip" /\ verdict = s.blamedGoodOrBad),
              !.pIdx = @ + 1]

AfterParentPc(s) == IF s.pIdx = Len(s.parents) THEN "explain" ELSE "parents"

\* One pass of `for p in parents`, the parent has a label already.
CheckParentLabelled(p) ==
    /\ pc[p] = "parents"
    /\ LET s == sess[p]
           par == s.parents[s.pIdx]
       IN
       /\ s.labels[par] # NoLabel
       /\ sess' = [sess EXCEPT ![p] = ParentChecked(s, s.labels[par])]
       /\ pc' = [pc EXCEPT ![p] = AfterParentPc(s)]
    /\ UNCHANGED <<lockHolder, bisectState, workingCopy, options, hist>>
    /\ UNCHANGED oracleVars

\* The parent has no label, as if it had one: it is tested again.
CheckParentAlways(s, par) == TRUE

\* `if labels.get(p) is None`
ParentUntested(s, par) == s.labels[par] = NoLabel

\* One pass of `for p in parents`, the parent has no label: its ancestry is
\* asked from hg (isStartAnc, isEndAnc), it is tested and labelled.
CheckParentUnlabelled(p) ==
    /\ pc[p] = "parents"
    /\ LET s == sess[p]
           par == s.parents[s.pIdx]
       IN
       /\ ParentUntested(s, par)
       /\ \E isStartAnc \in BOOLEAN, isEndAnc \in BOOLEAN, verdict \in Verdicts :
            LET s1 == [s EXCEPT !.missedCommonAncestor =
                                    @ \/ (~isStartAnc /\ ~isEndAnc),
                                !.labels = SetLabel(s.labels, par, verdict)]
            IN
            /\ sess' = [sess EXCEPT ![p] = ParentChecked(s1, verdict)]
            /\ hist' = [hist EXCEPT ![p] =
                          [Tested(hist[p], par) EXCEPT
                              !.vTested = @ \cup {par},
                              !.outsideParent = @ \/ (~isStartAnc /\ ~isEndAnc)]]
       /\ workingCopy' = "other"
       /\ pc' = [pc EXCEPT ![p] = AfterParentPc(s)]
    /\ UNCHANGED <<lockHolder, bisectState, options>>
    /\ UNCHANGED oracleVars

\* testRev(p) raises in checkBlameParents.
CheckParentRaise(p) ==
    /\ pc[p] = "parents"
    /\ LET s == sess[p]
           par == s.parents[s.pIdx]
       IN
       /\ ParentUntested(s, par)
       /\ workingCopy' = "other"
    /\ hist' = [hist EXCEPT ![p] =
                  [@ EXCEPT !.nTests = @ + 1, !.outcome = "oracle_error"]]
    /\ pc' = [pc EXCEPT ![p] = "raised"]
    /\ UNCHANGED <<lockHolder, bisectState, options, sess>>
    /\ UNCHANGED oracleVars

\* The common ancestor tested whenever bisect lied.
TestsCommonAncestorWhenLied(s) == s.bisectLied

\* `if bisectLied: if missedCommonAncestor:`
TestsCommonAncestor(s) == s.bisectLied /\ s.missedCommonAncestor

\* `if bisectLied: if missedCommonAncestor:` the common ancestor of the two
\* parents is asked from hg and tested; its label is only logged.
ExplainTestAncestor(p) ==
    /\ pc[p] = "explain"
    /\ TestsCommonAncestor(sess[p])
    /\ \E ca \in AllRevs, verdict \in Verdicts :
         /\ ca \notin ParentSet(sess[p].parents) \cup {sess[p].blamedRev}
         /\ hist' = [hist EXCEPT ![p] =
                       [Tested(hist[p], ca) EXCEPT
                           !.vTested = @ \cup {ca},
                           !.report = "missed common ancestor"]]
         /\ workingCopy' = "other"
    /\ pc' = [pc EXCEPT ![p] = "cleanup"]
    /\ UNCHANGED <<lockHolder, bisectState, options, sess>>
    /\ UNCHANGED oracleVars

\* testRev(ca) raises.
ExplainRaise(p) ==
    /\ pc[p] = "explain"
    /\ TestsCommonAncestor(sess[p])
    /\ workingCopy' = "other"
    /\ hist' = [hist EXCEPT ![p] =
                  [@ EXCEPT !.nTests = @ + 1, !.outcome = "oracle_error"]]
    /\ pc' = [pc EXCEPT ![p] = "raised"]
    /\ UNCHANGED <<lockHolder, bisectState, options, sess>>
    /\ UNCHANGED oracleVars

\* The other two explanations: nothing is tested.
ExplainOnly(p) ==
    /\ pc[p] = "explain"
    /\ ~TestsCommonAncestor(sess[p])
    /\ hist' = [hist EXCEPT ![p].report =
                  IF sess[p].bisectLied THEN "wrongly marked revision"
                  ELSE "introduced by a merge"]
    /\ pc' = [pc EXCEPT ![p] = "cleanup"]
    /\ UNCHANGED <<lockHolder, bisectState, workingCopy, options, sess>>
    /\ UNCHANGED oracleVars

\* The end of findBlamedCset: `hg bisect -U -r`, `hg update -C -r default`.
Cleanup(p) ==
    /\ pc[p] = "cleanup"
    /\ bisectState' = "reset"
    /\ workingCopy' = "default"
    /\ hist' = [hist EXCEPT ![p].cleaned = TRUE]
    /\ pc' = [pc EXCEPT ![p] = "done"]
    /\ UNCHANGED <<lockHolder, options, sess>>
    /\ UNCHANGED oracleVars

\* ------------------------------------------------ internalTestAndLabel

\* stdoutStderr.find(options.output) != -1: the empty string is found in
\* every text.
Find(stdoutStderr, o) == o.outputEmpty \/ stdoutStderr.hasOutput

\* A watched exit code that no exit code equals.
SpecifiedExitCodeNever(o, exitCode) == FALSE

\* options.watchExitCode is not None and exitCode == options.watchExitCode
SpecifiedExitCode(o, exitCode) ==
    ~o.watchIsNone /\ exitCode = o.watchExitCode

\* The signal number taken for the exit code of the signal.
SignalExitCodeUnconverted(exitCode) == 0 - exitCode

\* 128 - exitCode, for a negative exit code: 128 + the signal number.
SignalExitCode(exitCode) == 128 - exitCode

\* An empty options.output counted as an output that was not found.
OutputNotFoundOrEmpty(stdoutStderr, o) ==
    ~Find(stdoutStderr, o) \/ o.outputEmpty

\* (stdoutStderr.find(options.output) == -1) and (options.output != "")
OutputNotFound(stdoutStderr, o) ==
    ~Find(stdoutStderr, o) /\ ~o.outputEmpty

OracleLabel(label, reason) == [label |-> label, reason |-> reason]

\* inner of internalTestAndLabel, after testBinary returned
\* (stdoutStderr, exitCode).
InternalTestAndLabel(o, stdoutStderr, exitCode) ==
    IF Find(stdoutStderr, o) /\ ~o.outputEmpty
    THEN OracleLabel("bad", "Specified-bad output")
    ELSE IF SpecifiedExitCode(o, exitCode)
    THEN OracleLabel("bad", "Specified-bad exit code")
    ELSE IF o.watchIsNone /\ 129 <= exitCode /\ exitCode <= 159
    THEN OracleLabel("bad", "High exit code")
    ELSE IF exitCode < 0
    THEN IF ~o.watchIsNone /\ SignalExitCode(exitCode) = o.watchExitCode
         THEN OracleLabel("bad", "Specified-bad exit code (after converting to signal)")
         ELSE IF OutputNotFound(stdoutStderr, o)
         THEN OracleLabel("good", "Bad output, but not the specified one")
         ELSE IF ~o.watchIsNone /\ SignalExitCode(exitCode) # o.watchExitCode
         THEN OracleLabel("good", "Negative exit code, but not the specified one")
         ELSE OracleLabel("bad", "Negative exit code")
    ELSE IF exitCode = 0
    THEN OracleLabel("good", "Exit code 0")
    ELSE IF (exitCode = 1 \/ exitCode = 2) /\ ~o.outputEmpty
            /\ stdoutStderr.hasUsage
    THEN OracleLabel("good", "Exit code 1 or 2")
    ELSE IF 3 <= exitCode /\ exitCode <= 6
    THEN OracleLabel("good", "Acceptable exit code")
    ELSE IF ~o.watchIsNone
    THEN OracleLabel("good", "Unknown exit code, but not the specified one")
    ELSE OracleLabel("bad", "Unknown exit code")

\* One call of the internal oracle on a built shell.
InternalInner ==
    /\ oracle.label = "None"
    /\ LET r == InternalTestAndLabel(oracle.options, oracle.stdoutStderr,
                                     oracle.exitCode)
       IN oracle' = [oracle EXCEPT !.label = r.label, !.reason = r.reason]
    /\ UNCHANGED ext
    /\ UNCHANGED sessionVars

\* ------------------------------------------------ externalTestAndLabel

\* Calls of the external oracle that are followed.
MaxExtCalls == 4

\* inner of externalTestAndLabel, returning: the temporary directory is made,
\* init (if the condition script has one) and interesting return, the
\* directory is removed if it still is one.  The condition script may have
\* removed it before.
ExternalInner ==
    /\ ext.nCalls < MaxExtCalls
    /\ \E interesting \in BOOLEAN :
         ext' = [ext EXCEPT !.nCalls = @ + 1,
                            !.result = IF interesting THEN "bad" ELSE "good"]
    /\ UNCHANGED oracle
    /\ UNCHANGED sessionVars

\* inner of externalTestAndLabel, left by an exception of init or of
\* interesting: nothing after the raising call runs.  The condition script
\* may or may not have removed the directory itself.
ExternalInnerRaise ==
    /\ ext.nCalls < MaxExtCalls
    /\ \E by \in {"init", "interesting"}, removed \in BOOLEAN :
         /\ by = "init" => ext.hasInit
         /\ ext' = [ext EXCEPT !.nCalls = @ + 1,
                               !.tempDirs = IF removed THEN @
                                            ELSE @ \cup {ext.nCalls + 1},
                               !.result = "raised"]
    /\ UNCHANGED oracle
    /\ UNCHANGED sessionVars

\* The oracles on their own: the internal oracle is called once on each
\* input, the external oracle repeatedly.
InitOracle ==
    /\ lockHolder = "free"
    /\ bisectState = "reset"
    /\ workingCopy = "default"
    /\ pc = [p \in Procs |-> "start"]
    /\ options = [p \in Procs |-> NoOptions]
    /\ sess = [p \in Procs |-> NoSess]
    /\ hist = [p \in Procs |-> NoHist]
    /\ oracle \in OracleInputs
    /\ \E hasInit \in BOOLEAN : ext = [NoExt EXCEPT !.hasInit = hasInit]

NextOracle ==
    \/ InternalInner
    \/ ExternalInner
    \/ ExternalInnerRaise

SpecOracle == InitOracle /\ [][NextOracle]_vars

\* ------------------------------------------------------------ sessions

Step(p) ==
    \/ MainEnter(p)
    \/ FindInitTest(p)
    \/ FindInitTrusted(p)
    \/ LoopTest(p)
    \/ LoopTestRaise(p)
    \/ LoopMark(p)
    \/ CallCheckBlameParents(p)
    \/ NoBlamedRev(p)
    \/ CheckParentLabelled(p)
    \/ CheckParentUnlabelled(p)
    \/ CheckParentRaise(p)
    \/ ExplainTestAncestor(p)
    \/ ExplainRaise(p)
    \/ ExplainOnly(p)
    \/ Cleanup(p)
    \/ MainExit(p)
    \/ MainExitError(p)

\* One process runs main.
Next == Step("p1")

Spec == Init /\ [][Next]_vars

\* Every process runs main, against the same repository.
NextMain == \E p \in Procs : Step(p)

SpecMain == Init /\ [][NextMain]_vars

\* ------------------------------------------------------------ claims

\* Marks sent by the loop (the initialisation with trusted endpoints sends two).
LoopMarks(p) == hist[p].nMarks - (IF hist[p].trusted THEN 2 ELSE 0)

\* C1: when every verdict of the loop is skip, the loop is still running only
\* before its 21st oracle call, and a loop that ended by its break (not by an
\* answer of the delegate without a next candidate) ended after exactly 21 calls.
C1_SkipOverflowAt21 ==
    \A p \in Procs :
        hist[p].nonSkip = 0 =>
            /\ pc[p] \in {"loop", "mark"} => hist[p].nTests <= SkipLimit
            /\ (pc[p] = "afterLoop" /\ hist[p].answer = NoAnswer)
                   => (hist[p].nTests = SkipLimit + 1
                       /\ sess[p].skipCount = SkipLimit + 1)

C1_Witness ==
    \E p \in Procs :
        /\ pc[p] = "afterLoop"
        /\ hist[p].nonSkip = 0
        /\ hist[p].nTests = 21
        /\ hist[p].outcome = "skip_overflow"

\* C2: the loop sends at most 20 skip marks; once skipCount is past 20 the
\* loop is over, exactly 20 skips were marked, the last tested revision was
\* never marked (one mark fewer than tests) and no oracle call followed.
C2_OverflowSkipNotMarked ==
    \A p \in Procs :
        /\ hist[p].nSkipMarks <= SkipLimit
        /\ sess[p].skipCount > SkipLimit =>
               /\ pc[p] \in {"afterLoop", "cleanup", "done"}
               /\ hist[p].nSkipMarks = SkipLimit
               /\ LoopMarks(p) = hist[p].nTests - 1
               /\ hist[p].nTests = sess[p].skipCount + hist[p].nonSkip

C2_Witness ==
    \E p \in Procs :
        /\ pc[p] = "done"
        /\ sess[p].skipCount = 21
        /\ hist[p].nSkipMarks = 20
        /\ hist[p].nonSkip > 0

\* C3 as stated: no step of a session changes an entry of labels that is set,
\* and the initialisation replaces no label it has set.
C3_LabelsNeverReplaced ==
    [][\A p \in Procs :
         /\ ~hist'[p].initRelabelled
         /\ \A r \in AllRevs :
              (sess[p].labels[r] # NoLabel /\ pc'[p] # "exited")
                  => sess'[p].labels[r] = sess[p].labels[r]]_vars

\* C3 amended: an entry of labels that is set changes only when the loop tests
\* that revision again; the initialisation replaces the label of the start
\* revision only when start and end resolve to the same revision; the blame
\* verifier never changes an entry that is set.
C3_LabelsReplacedOnlyByRetest ==
    [][\A p \in Procs :
         /\ hist'[p].initRelabelled =>
                (hist'[p].trusted /\ sess'[p].realStartRepo = sess'[p].realEndRepo)
         /\ \A r \in AllRevs :
              (/\ sess[p].labels[r] # NoLabel
               /\ pc'[p] # "exited"
               /\ sess'[p].labels[r] # sess[p].labels[r])
                  => (pc[p] = "loop" /\ sess[p].currRev = r)]_vars

C3_Witness ==
    \E p \in Procs :
        /\ pc[p] = "done"
        /\ hist[p].verifierArgs # <<>>
        /\ Len(sess[p].parents) = 2
        /\ hist[p].nTests >= 3
        /\ \A r \in Revs : sess[p].labels[r] # NoLabel

\* C4: in a session the range's start is the original start or a revision
\* tested and labelled good, its end the original end or one tested and
\* labelled bad.
C4_RangeEndsAreLabelled ==
    \A p \in Procs :
        pc[p] \in {"loop", "mark", "afterLoop", "parents", "explain",
                   "cleanup", "done", "raised"} =>
            /\ \/ sess[p].sRepo = sess[p].realStartRepo
               \/ /\ sess[p].sRepo \in hist[p].tested
                  /\ sess[p].labels[sess[p].sRepo] = "good"
            /\ \/ sess[p].eRepo = sess[p].realEndRepo
               \/ /\ sess[p].eRepo \in hist[p].tested
                  /\ sess[p].labels[sess[p].eRepo] = "bad"

\* C5: a session that ended as blamed, ambiguous, skip overflow or parse
\* failure has reset hg's bisect state and restored the working copy.
C5_EverySessionCleansUp ==
    \A p \in Procs :
        (/\ pc[p] \in {"done", "raised"}
         /\ hist[p].outcome \in {"blamed", "ambiguous", "skip_overflow",
                                 "parse_failure"})
            => (bisectState = "reset" /\ workingCopy = "default")

\* C6: when main has ended, by any path, the lock is released and the working
\* copy is at the default revision.
C6_ExitReleasesAndRestores ==
    \A p \in Procs :
        pc[p] = "exited" => (lockHolder # p /\ workingCopy = "default")

\* A process inside the with-block of main.
InWith(p) ==
    pc[p] \in {"locked", "loop", "mark", "afterLoop", "parents", "explain",
               "cleanup", "done", "raised"}

\* C7: a process inside the with-block (from before findBlamedCset starts
\* until the cache clean-up is done) holds the lock, and no two processes are
\* inside it at the same time.
C7_OneSessionAtATime ==
    /\ \A p \in Procs : InWith(p) => lockHolder = p
    /\ \A p \in Procs : \A q \in Procs \ {p} : ~(InWith(p) /\ InWith(q))

C7_Witness ==
    \E p \in Procs : \E q \in Procs \ {p} :
        /\ pc[p] = "cleanup"
        /\ pc[q] = "start"
        /\ \E o \in Procs \ {p} : pc[o] = "exited" \/ pc[o] = "start"
        /\ bisectState = "dirty"

\* C8: an answer "The first (good|bad) revision is:" with a revision id ends
\* the loop with that revision and verdict as the blamed ones, which the
\* blame verifier is then called with.
C8_FoundStopsAndIsVerified ==
    \A p \in Procs :
        IsFound(hist[p].answer) =>
            /\ pc[p] = "afterLoop"
            /\ <<sess[p].blamedGoodOrBad, sess[p].blamedRev>> = FoundOf(hist[p].answer)

C10_EndpointsTestedFirst ==
    \A p \in Procs :
        (pc[p] \in {"loop", "mark", "afterLoop"} /\ ~hist[p].trusted) =>
            /\ (pc[p] = "loop" /\ hist[p].nTests = 0)
                   => sess[p].currRev = sess[p].realEndRepo
            /\ hist[p].nTests >= 1 =>
                   (sess[p].realEndRepo \in hist[p].tested
                    /\ sess[p].labels[sess[p].realEndRepo] # NoLabel)
            /\ (pc[p] = "loop" /\ hist[p].nTests = 1)
                   => sess[p].currRev = sess[p].realStartRepo
            /\ hist[p].nTests >= 2 =>
                   (sess[p].realStartRepo \in hist[p].tested
                    /\ sess[p].labels[sess[p].realStartRepo] # NoLabel)

C10_Witness ==
    \E p \in Procs :
        /\ ~hist[p].trusted
        /\ pc[p] = "mark"
        /\ hist[p].nTests = 3
        /\ sess[p].realStartRepo # sess[p].realEndRepo

\* ---------------------------------------------------------------- C11
\* The ordered rule list of the internal oracle as the design states it: rule
\* n applies to a call c (options, output text, exit code).
RuleApplies(n, c) ==
    CASE n = 1 -> ~c.options.outputEmpty /\ c.stdoutStderr.hasOutput
      [] n = 2 -> ~c.options.watchIsNone /\ c.exitCode = c.options.watchExitCode
      [] n = 3 -> c.options.watchIsNone /\ c.exitCode \in 129..159
      [] n = 4 -> c.exitCode < 0
      [] n = 5 -> c.exitCode = 0
      [] n = 6 -> /\ c.exitCode \in {1, 2}
                  /\ ~c.options.outputEmpty
                  /\ c.stdoutStderr.hasUsage
      [] n = 7 -> c.exitCode \in 3..6
      [] n = 8 -> ~c.options.watchIsNone
      [] n = 9 -> TRUE

\* The verdict of rule n when it applies.
RuleVerdict(n, c) ==
    CASE n \in {1, 2, 3, 9} -> "bad"
      [] n \in {5, 6, 7, 8} -> "good"
      [] n = 4 ->
           IF ~c.options.watchIsNone /\ 128 - c.exitCode = c.options.watchExitCode
           THEN "bad"
           ELSE IF ~c.options.outputEmpty /\ ~c.stdoutStderr.hasOutput
           THEN "good"
           ELSE IF ~c.options.watchIsNone THEN "good" ELSE "bad"

FirstRule(c) ==
    CHOOSE n \in 1..9 : RuleApplies(n, c) /\ \A m \in 1..(n - 1) : ~RuleApplies(m, c)

OracleReturned == oracle.label # "None"

\* C11: the verdict internalTestAndLabel returns is the verdict of the first
\* rule of the nine-rule ordered list that applies, for every exit code,
\* output text and configuration; it is good or bad, never skip.
C11_VerdictIsFirstMatchingRule ==
    OracleReturned =>
        /\ oracle.label = RuleVerdict(FirstRule(oracle), oracle)
        /\ oracle.label \in {"good", "bad"}

\* A call decided by rule 8 only because rules 1 to 7 do not apply: exit
\* code 7, watched exit code 3, an output filter that was not found.
C11_Witness ==
    /\ OracleReturned
    /\ FirstRule(oracle) = 8
    /\ oracle.label = "good"
    /\ ~oracle.options.outputEmpty
    /\ oracle.exitCode = 7

\* ---------------------------------------------------------------- C12
\* C12: with a watched exit code and no output filter the verdict is bad
\* exactly when the exit code is the watched one, directly or, for a negative
\* exit code, as 128 - exitCode; it is good for every other exit code.
C12_WatchedExitCodeOnly ==
    (OracleReturned /\ ~oracle.options.watchIsNone /\ oracle.options.outputEmpty) =>
        /\ oracle.label = "bad" <=>
              \/ oracle.exitCode = oracle.options.watchExitCode
              \/ /\ oracle.exitCode < 0
                 /\ 128 - oracle.exitCode = oracle.options.watchExitCode
        /\ oracle.label \in {"good", "bad"}

\* Signal 11 (exit code -11) with -w 139 and no output filter: bad.
C12_Witness ==
    /\ OracleReturned
    /\ oracle.options.outputEmpty
    /\ ~oracle.options.watchIsNone
    /\ oracle.options.watchExitCode = 139
    /\ oracle.exitCode = -11
    /\ oracle.label = "bad"

\* ---------------------------------------------------------------- C13
\* C13: after every call of the external oracle, returned or left by an
\* error of init or interesting, the temporary directory of the call is gone.
C13_TempDirAlwaysRemoved ==
    ext.nCalls > 0 => (ext.nCalls \notin ext.tempDirs)

\* ---------------------------------------------------------------- C19
\* C19 as stated: with no watched exit code, a negative exit code and no
\* output filter that matched the output (none set, or the set one not
\* found), the verdict is bad.
C19_NegativeUnmatchedIsBad ==
    (/\ OracleReturned
     /\ oracle.options.watchIsNone
     /\ oracle.exitCode < 0
     /\ ~(~oracle.options.outputEmpty /\ oracle.stdoutStderr.hasOutput)) =>
        oracle.label = "bad"

\* C19, amended: with no watched exit code and a negative exit code, the
\* verdict is bad when no output filter is set, and good when an output
\* filter is set and was not found in the output.
C19_NegativeIsBadWithoutFilter ==
    (OracleReturned /\ oracle.options.watchIsNone /\ oracle.exitCode < 0) =>
        /\ oracle.options.outputEmpty => oracle.label = "bad"
        /\ (~oracle.options.outputEmpty /\ ~oracle.stdoutStderr.hasOutput) =>
              oracle.label = "good"

\* Exit code -11, no -w, no -o: bad, by the last return of the negative branch.
C19_Witness ==
    /\ OracleReturned
    /\ oracle.options.watchIsNone
    /\ oracle.options.outputEmpty
    /\ oracle.exitCode = -11
    /\ oracle.label = "bad"
    /\ oracle.reason = "Negative exit code"

\* ---------------------------------------------------------------- C14
\* C14: every revision the oracle returned a verdict for during the session
\* (loop candidate, endpoint, parent or common ancestor tested by the
\* verifier) has an entry in the session's label mapping.
C14_TestedRevisionsAreLabelled ==
    \A p \in Procs :
        \A r \in hist[p].tested : sess[p].labels[r] # NoLabel

\* ---------------------------------------------------------------- C15
\* The revisions of the parent list that carry verdict in the label mapping.
ParentsLabelled(p, verdict) ==
    {r \in ParentSet(sess[p].parents) : sess[p].labels[r] = verdict}

Opposite(verdict) == IF verdict = "good" THEN "bad" ELSE "good"

Contradicted(p) ==
    hist[p].report \in {"missed common ancestor", "wrongly marked revision"}

\* C15: for a blamed revision with two parents the verifier reports that
\* bisect lied exactly when some parent's verdict is the blamed verdict (a
\* skipped parent never counts); with both parents of the opposite verdict
\* it reports that the merge introduced the bug.
C15_LiedIffParentHasBlamedVerdict ==
    \A p \in Procs :
        hist[p].report # "none" =>
            /\ Len(sess[p].parents) = 2
            /\ Contradicted(p) <=>
                  ParentsLabelled(p, sess[p].blamedGoodOrBad) # {}
            /\ ParentsLabelled(p, Opposite(sess[p].blamedGoodOrBad))
                      = ParentSet(sess[p].parents)
                  => hist[p].report = "introduced by a merge"

\* One parent skipped, the other with the blamed verdict: bisect lied.
C15_Witness ==
    \E p \in Procs :
        /\ Contradicted(p)
        /\ ParentsLabelled(p, "skip") # {}
        /\ ParentsLabelled(p, sess[p].blamedGoodOrBad) # {}

\* ---------------------------------------------------------------- C16
\* An answer that is neither terminal form and has no revision id in its
\* first line.
IsUnparsable(resp) == resp.line0 = "Other" /\ resp.id0 = NoRev

\* C16 as stated: after such an answer to a mark the session has ended in an
\* error, with the working copy back on the default revision.
C16_UnparsableIsFatal ==
    \A p \in Procs :
        IsUnparsable(hist[p].answer) =>
            /\ pc[p] = "raised"
            /\ workingCopy = "default"

\* C16, amended: such an answer to a mark the loop sends after the endpoint
\* phase ends the session in the error "hg did not suggest a changeset to
\* test!", raised after the working copy was restored, and nothing is tested
\* or marked after it.  The answer to the mark of the first tested endpoint
\* is not parsed: the start revision is tested next.  The answer to the
\* marks of the assumed endpoints ends the session without a candidate, by
\* a normal return or by the error of the helper.
C16_UnparsableIsFatalInLoop ==
    \A p \in Procs :
        IsUnparsable(hist[p].answer) =>
            CASE hist[p].answer.by = "loop" ->
                   /\ pc[p] = "raised"
                   /\ hist[p].outcome = "parse_failure"
                   /\ workingCopy = "default"
              [] hist[p].answer.by = "endpoint" ->
                   /\ pc[p] = "loop"
                   /\ sess[p].currRev = sess[p].realStartRepo
              [] hist[p].answer.by = "init" ->
                   /\ pc[p] \in {"afterLoop", "cleanup", "done", "raised"}
                   /\ hist[p].nTests = 0
                   /\ sess[p].blamedRev = NoRev

\* The error after two tests: the second mark is answered without an id.
C16_Witness ==
    \E p \in Procs :
        /\ IsUnparsable(hist[p].answer)
        /\ hist[p].answer.by = "loop"
        /\ pc[p] = "raised"
        /\ ~hist[p].trusted
        /\ hist[p].nTests = 2

\* ---------------------------------------------------------------- C17
\* C17: marks follow tests one to one: every mark of the loop carries the
\* revision and the verdict of the test before it, a test is marked before
\* the next test, and only the skip that breaks the loop stays unmarked.
C17_MarksFollowTests ==
    \A p \in Procs :
        /\ hist[p].inOrder
        /\ pc[p] = "mark" =>
              /\ hist[p].pending = <<sess[p].currRev, sess[p].label>>
              /\ LoopMarks(p) = hist[p].nTests - 1
        /\ pc[p] = "loop" =>
              /\ hist[p].pending = <<>>
              /\ LoopMarks(p) = hist[p].nTests
        /\ pc[p] = "afterLoop" =>
              IF hist[p].outcome = "skip_overflow"
              THEN /\ hist[p].pending = <<sess[p].currRev, "skip">>
                   /\ LoopMarks(p) = hist[p].nTests - 1
              ELSE /\ hist[p].pending = <<>>
                   /\ LoopMarks(p) = hist[p].nTests

\* Two tests, each marked, with a candidate that is not the range's start.
C17_Witness ==
    \E p \in Procs :
        /\ pc[p] = "loop"
        /\ LoopMarks(p) = 2
        /\ hist[p].nTests = 2
        /\ hist[p].inOrder
        /\ sess[p].currRev # sess[p].sRepo

\* ---------------------------------------------------------------- C18
IsTerminal(resp) ==
    resp.line0 \in {"DueToSkipped", "FirstGood", "FirstBad"}

\* C18: the step that marks a revision and reads the answer leaves the end
\* of the range alone for a good verdict, the start for a bad verdict, both
\* for a skip verdict and both for a terminal answer.
C18_RangeFrame ==
    [][\A p \in Procs :
          (pc[p] = "mark" /\ pc'[p] # "mark") =>
              /\ sess[p].label = "good" => sess'[p].eRepo = sess[p].eRepo
              /\ sess[p].label = "bad" => sess'[p].sRepo = sess[p].sRepo
              /\ (sess[p].label = "skip" \/ IsTerminal(hist'[p].answer)) =>
                    /\ sess'[p].sRepo = sess[p].sRepo
                    /\ sess'[p].eRepo = sess[p].eRepo]_vars

\* A good verdict answered with a next candidate moved the start only.
C18_Witness ==
    \E p \in Procs :
        /\ pc[p] = "loop"
        /\ hist[p].answer.by = "loop"
        /\ IsNext(hist[p].answer)
        /\ sess[p].label = "good"
        /\ sess[p].sRepo = hist[p].answer.id0
        /\ sess[p].sRepo # sess[p].realStartRepo
        /\ sess[p].eRepo = sess[p].realEndRepo

\* ---------------------------------------------------------------- C20
\* C20: the verifier tests the common ancestor of the two parents exactly
\* when some parent has the blamed verdict and some parent without a label
\* on entry descends from neither the resolved start nor the resolved end;
\* apart from it the verifier tests the parents without a label on entry and
\* nothing else, and the loop is not entered again.
C20_AncestorTestedIffLiedAndMissed ==
    \A p \in Procs :
        /\ hist[p].report # "none" =>
              LET ancestor == hist[p].report = "missed common ancestor" IN
              /\ ancestor <=>
                    /\ ParentsLabelled(p, sess[p].blamedGoodOrBad) # {}
                    /\ hist[p].outsideParent
              /\ hist[p].ancestryOf =
                    <<sess[p].realStartRepo, sess[p].realEndRepo>>
              /\ hist[p].entryUnlabelled \subseteq hist[p].vTested
              /\ Cardinality(hist[p].vTested \ hist[p].entryUnlabelled)
                    = IF ancestor THEN 1 ELSE 0
        /\ hist[p].verifierArgs # <<>> =>
              pc[p] \in {"parents", "explain", "cleanup", "done", "raised"}

\* The common ancestor was tested after an unlabelled parent outside the range.
C20_Witness ==
    \E p \in Procs :
        /\ hist[p].report = "missed common ancestor"
        /\ hist[p].outsideParent
        /\ "rA" \in hist[p].vTested
        /\ pc[p] = "done"


\* ---- C21
\* What the initialisation of a session with trusted endpoints leaves behind.
TrustedInitState(p) ==
    LET s == sess[p]
        h == hist[p]
        n == Len(h.initOps)
    IN
    (h.trusted /\ s.realEndRepo # NoRev /\ n > 0) =>
        /\ n >= 2
        /\ h.initOps[n - 1] = <<"good", s.realStartRepo>>
        /\ h.initOps[n] = <<"bad", s.realEndRepo>>
        /\ h.nTests = 0 =>
             /\ h.tested = {}
             /\ s.labels[s.realEndRepo] = "bad"
             /\ s.realStartRepo # s.realEndRepo => s.labels[s.realStartRepo] = "good"
        /\ (h.nTests = 0 /\ pc[p] = "loop") =>
             /\ h.answer.by = "init"
             /\ s.currRev = h.answer.id0

\* The first test of a session with trusted endpoints.
TrustedFirstTest(p) ==
    (hist[p].trusted /\ hist[p].nTests = 0 /\ hist'[p].nTests = 1) =>
        /\ hist[p].answer.by = "init"
        /\ sess[p].currRev = hist[p].answer.id0
        /\ hist'[p].tested \subseteq {hist[p].answer.id0}

\* C21: in a session with trusted endpoints (testInitialRevs unset) the start
\* is recorded good and the end bad while no revision has been tested, the
\* delegate is told good for the start and then bad for the end, and the first
\* revision handed to the oracle is the candidate of the delegate's answer to
\* the bad mark: no endpoint is tested as an endpoint.
C21_TrustedEndpointsNotTested ==
    /\ [](\A p \in Procs : TrustedInitState(p))
    /\ [][\A p \in Procs : TrustedFirstTest(p)]_vars

C21_Witness ==
    \E p \in Procs :
        /\ hist[p].trusted
        /\ hist[p].nTests = 1
        /\ pc[p] = "mark"
        /\ sess[p].realStartRepo # sess[p].realEndRepo
        /\ hist[p].tested = {sess[p].currRev}
        /\ hist[p].initOps = << <<"reset">>, <<"skip">>,
                                <<"good", sess[p].realStartRepo>>,
                                <<"bad", sess[p].realEndRepo>> >>


\* ---- C22
\* The hg bisect commands of the initialisation are a reset, then at most one
\* registration of skip ranges, then only marks.
InitOpsInOrder(ops) ==
    /\ Len(ops) >= 1
    /\ ops[1] = <<"reset">>
    /\ \A i \in 2..Len(ops) :
         /\ ops[i] # <<"reset">>
         /\ ops[i] = <<"skip">> => i = 2

\* C22: in every session the first delegate operation is a reset, and the
\* registration of the known-broken skip ranges, when there is one, comes right
\* after that reset, before every mark and every oracle call: until the
\* initialisation has run nothing is marked or tested, and its commands are in
\* that order.
C22_ResetThenSkipsFirst ==
    \A p \in Procs :
        /\ hist[p].initOps = <<>> => (hist[p].nMarks = 0 /\ hist[p].nTests = 0)
        /\ (hist[p].nMarks > 0 \/ hist[p].nTests > 0
                \/ pc[p] \in {"loop", "mark", "afterLoop", "parents", "explain"})
              => InitOpsInOrder(hist[p].initOps)

C22_Witness ==
    \E p \in Procs :
        /\ Len(hist[p].initOps) >= 2
        /\ hist[p].initOps[1] = <<"reset">>
        /\ hist[p].initOps[2] = <<"skip">>
        /\ hist[p].nTests >= 1
        /\ hist[p].nMarks >= 1


\* ---- C23
\* A step that leaves process p inside or just past a checkBlameParents call
\* for a revision with one parent.
SingleParentStep(p) ==
    (Len(sess'[p].parents) = 1 /\ hist'[p].nVerifier > 0) =>
        /\ sess'[p].labels = sess[p].labels
        /\ hist'[p].nTests = hist[p].nTests
        /\ hist'[p].vTested = {}
        /\ ~sess'[p].missedCommonAncestor
        /\ hist'[p].report = "none"
        /\ pc'[p] \notin {"parents", "explain"}

\* C23: when the blamed revision has exactly one parent, checkBlameParents
\* returns at once: the oracle is not called, no common ancestor is computed,
\* nothing is reported and the label mapping is what it was before the call.
C23_SingleParentReturnsAtOnce == [][\A p \in Procs : SingleParentStep(p)]_vars

C23_Witness ==
    \E p \in Procs :
        /\ Len(sess[p].parents) = 1
        /\ hist[p].nVerifier = 1
        /\ hist[p].verifierArgs # <<>>
        /\ pc[p] = "cleanup"


\* ---- C24
\* C24: checkBlameParents is called at most once in a session, and only after
\* the loop has ended with a blamed revision, which it is called with; a
\* session whose loop was left by the skip overflow never calls it.
C24_VerifierOnceAfterBlame ==
    \A p \in Procs :
        /\ hist[p].nVerifier <= 1
        /\ hist[p].nVerifier = 0 <=> hist[p].verifierArgs = <<>>
        /\ hist[p].nVerifier = 1 =>
             /\ sess[p].blamedRev # NoRev
             /\ sess[p].currRev = NoRev
             /\ hist[p].verifierArgs = <<sess[p].blamedGoodOrBad, sess[p].blamedRev>>
             /\ pc[p] \in {"parents", "explain", "cleanup", "done", "raised"}
             /\ IsFound(hist[p].answer) \/ hist[p].answer = NoAnswer
        /\ pc[p] \in {"parents", "explain"} => hist[p].nVerifier = 1
        /\ hist[p].outcome = "skip_overflow" =>
             /\ hist[p].nVerifier = 0
             /\ sess[p].blamedRev = NoRev

C24_Witness ==
    \E p \in Procs :
        /\ hist[p].outcome = "skip_overflow"
        /\ sess[p].skipCount = SkipLimit + 1
        /\ pc[p] = "cleanup"
        /\ hist[p].nVerifier = 0

\* ---- C25
\* C25: `assert currRev is None` never fails: the mark of the first tested
\* endpoint of a session with testInitialRevs set gives no next candidate,
\* whichever answer the delegate gave, and the session goes on with the start.
C25_EndpointAssertHolds ==
    \A p \in Procs :
        /\ hist[p].outcome # "assert_failure"
        /\ (hist[p].answer.by = "endpoint" /\ pc[p] = "loop") =>
             /\ sess[p].currRev = sess[p].sRepo
             /\ sess[p].sRepo = sess[p].realStartRepo
             /\ sess[p].eRepo = sess[p].realEndRepo
             /\ ~options[p].testInitialRevs

C25_Witness ==
    \E p \in Procs :
        /\ hist[p].answer.by = "endpoint"
        /\ IsNext(hist[p].answer)
        /\ hist[p].answer.id0 # NoRev
        /\ hist[p].answer.id0 # sess[p].realStartRepo
        /\ pc[p] = "loop"
        /\ sess[p].currRev = sess[p].realStartRepo

====
